---- MODULE Spec2Model ----
(***************************************************************************)
(* Model of scripts/add_watermark.py: the command-line entry point         *)
(* (the __main__ block), add_watermark and create_watermark, run against a *)
(* small file system.  The module-level imports (lines 10-27) are taken to *)
(* have resolved one of the two PDF backends; the model starts where the   *)
(* script or an importing caller starts to use them.                       *)
(*                                                                         *)
(* A page is the sequence of its content layers in drawing order (the last *)
(* one is drawn on top); a document is a sequence of pages; a file is a    *)
(* record saying what the path holds.                                      *)
(***************************************************************************)
EXTENDS Integers, Sequences, FiniteSets, TLC

\* ---------------------------------------------------------------- bounds
MaxPages == 2      \* pages of a document present before the first run
MaxRuns  == 2      \* invocations in a row, over the same file system
MaxArgs  == 3      \* positional arguments of a command line

Paths        == {"in.pdf", "out.pdf"}
ExtraArg     == "extra"
PageContents == {"a", "b"}
DefaultText  == "PREPRINT"
Texts        == {DefaultText, "DRAFT"}
NoPath       == "none"

\* ----------------------------------------------------------- file system
RECURSIVE SeqsUpTo(_, _)
SeqsUpTo(S, n) ==
    IF n = 0 THEN {<<>>}
    ELSE LET shorter == SeqsUpTo(S, n - 1)
         IN  shorter \cup {Append(s, x) : s \in shorter, x \in S}

Absent    == [kind |-> "absent",  pages |-> <<>>]
Corrupt   == [kind |-> "corrupt", pages |-> <<>>]
Empty     == [kind |-> "empty",   pages |-> <<>>]
Partial   == [kind |-> "partial", pages |-> <<>>]
PdfFile(doc) == [kind |-> "pdf", pages |-> doc]

\* The documents a user may hold before the tool has ever run: every page is
\* one layer of original content.
InitialDocs  == {[k \in 1..Len(s) |-> <<s[k]>>] : s \in SeqsUpTo(PageContents, MaxPages)}
InitialFiles == {Absent, Corrupt} \cup {PdfFile(d) : d \in InitialDocs}
\* The second path starts absent, unreadable or holding a one-page document.
InitialFs    == {f \in [Paths -> InitialFiles] :
                    f["out.pdf"].kind = "pdf" => f["out.pdf"].pages = << <<"b">> >>}

Msg(kind, path, err) == [kind |-> kind, path |-> path, err |-> err]

VARIABLES
    pc,             \* position in the script
    mode,           \* "cli": run as a script; "call": add_watermark imported and called
    argv,           \* positional arguments (sys.argv[1:])
    input_pdf, output_pdf, watermark_text,
    fs,             \* path -> file
    reader,         \* reader.pages, merged in place
    writer,         \* pages added to the PdfWriter
    watermark_page,
    idx,            \* position of the for loop in reader.pages
    exc,            \* <<>> or <<e>>: the exception raised inside the try block
    output_file,    \* "none", "open" or "closed": the handle of the with statement
    success,        \* <<>> or <<b>>: the value add_watermark returned
    stdout,         \* messages printed by the current invocation
    exit_status,    \* <<>> or <<n>>: argument of sys.exit
    \* history of the current invocation
    before,         \* the file system when the invocation started
    called,         \* add_watermark was entered
    inputOpens,     \* times the input path was opened
    wmCalls,        \* times create_watermark was called
    outOpens,       \* times the output path was opened
    \* history across invocations
    gen,            \* path -> successful watermark runs that produced the file
    runs            \* invocations started

vars == <<pc, mode, argv, input_pdf, output_pdf, watermark_text, fs, reader,
          writer, watermark_page, idx, exc, output_file, success, stdout,
          exit_status, before, called, inputOpens, wmCalls, outOpens, gen, runs>>

Init ==
    /\ pc = "idle"
    /\ mode = "cli"
    /\ argv = <<>>
    /\ input_pdf = NoPath
    /\ output_pdf = NoPath
    /\ watermark_text = DefaultText
    /\ fs \in InitialFs
    /\ reader = <<>>
    /\ writer = <<>>
    /\ watermark_page = <<>>
    /\ idx = 1
    /\ exc = <<>>
    /\ output_file = "none"
    /\ success = <<>>
    /\ stdout = <<>>
    /\ exit_status = <<>>
    /\ before = fs
    /\ called = FALSE
    /\ inputOpens = 0
    /\ wmCalls = 0
    /\ outOpens = 0
    /\ gen = [p \in Paths |-> 0]
    /\ runs = 0

\* ------------------------------------------------------- pure operations
exists_always(files, path) == TRUE
exists(files, path) == path \in DOMAIN files /\ files[path].kind # "absent"

\* create_watermark(text): a one-page document holding the rotated text.
create_watermark(text) == << <<text>> >>

\* page.merge_page(watermark_page): the watermark's content stream is
\* appended to the page's, so it is drawn after what the page held.
\* Variants: the watermark drawn underneath; an existing watermark detected.
merge_page_under(page, wm) == wm \o page
merge_page_once(page, wm) ==
    IF Len(page) > 0 /\ <<page[Len(page)]>> = wm THEN page ELSE page \o wm
merge_page(page, wm) == page \o wm

\* writer.add_page(page)
add_page_front(w, page) == <<page>> \o w
add_page(w, page) == Append(w, page)

\* sys.exit(0 if success else 1)
exit_code_zero(ok) == 0
exit_code(ok) == IF ok THEN 0 ELSE 1

TooFewArgs(args) == Len(args) < 2

Finished == pc \in {"idle", "done", "returned"}

\* A fresh invocation leaves nothing of the previous process but the files.
ResetRun(entered) ==
    /\ reader' = <<>>
    /\ writer' = <<>>
    /\ watermark_page' = <<>>
    /\ idx' = 1
    /\ exc' = <<>>
    /\ output_file' = "none"
    /\ success' = <<>>
    /\ stdout' = <<>>
    /\ exit_status' = <<>>
    /\ called' = entered
    /\ inputOpens' = 0
    /\ wmCalls' = 0
    /\ outOpens' = 0
    /\ before' = fs
    /\ runs' = runs + 1
    /\ UNCHANGED <<fs, gen>>

CommandLine(n, a, b) == [k \in 1..n |-> IF k = 1 THEN a ELSE IF k = 2 THEN b ELSE ExtraArg]

\* The script is started: python3 add_watermark.py <argv>
RunScript ==
    /\ Finished
    /\ runs < MaxRuns
    /\ \E n \in 0..MaxArgs, a \in Paths, b \in Paths :
          /\ (n < 1 => a = "in.pdf")
          /\ (n < 2 => b = "in.pdf")
          /\ argv' = CommandLine(n, a, b)
    /\ mode' = "cli"
    /\ pc' = "main"
    /\ input_pdf' = NoPath
    /\ output_pdf' = NoPath
    /\ watermark_text' = DefaultText
    /\ ResetRun(FALSE)

\* add_watermark(input_pdf, output_pdf[, watermark_text]) called by an importer.
CallAddWatermark ==
    /\ Finished
    /\ runs < MaxRuns
    /\ \E a \in Paths, b \in Paths, t \in Texts :
          /\ input_pdf' = a
          /\ output_pdf' = b
          /\ watermark_text' = t
    /\ mode' = "call"
    /\ argv' = <<>>
    /\ pc' = "parse"
    /\ ResetRun(TRUE)

\* ------------------------------------------------------------- __main__
Emit(m) == stdout' = Append(stdout, m)

Raise(e) == exc' = <<e>> /\ pc' = "except"

\* Variant: the usage branch prints but does not leave the script.
MainArgs_no_exit ==
    /\ pc = "main"
    /\ IF TooFewArgs(argv)
       THEN /\ Emit(Msg("usage", NoPath, "none"))
            /\ input_pdf' = NoPath
            /\ output_pdf' = NoPath
       ELSE /\ input_pdf' = argv[1]
            /\ output_pdf' = argv[2]
            /\ UNCHANGED stdout
    /\ pc' = "check"
    /\ UNCHANGED <<mode, argv, watermark_text, fs, reader, writer, watermark_page,
                   idx, exc, output_file, success, exit_status, before, called,
                   inputOpens, wmCalls, outOpens, gen, runs>>

\* if len(sys.argv) < 3: usage, exit(1); else read the two paths.
MainArgs ==
    /\ pc = "main"
    /\ IF TooFewArgs(argv)
       THEN /\ Emit(Msg("usage", NoPath, "none"))
            /\ exit_status' = <<1>>
            /\ pc' = "done"
            /\ UNCHANGED <<input_pdf, output_pdf>>
       ELSE /\ input_pdf' = argv[1]
            /\ output_pdf' = argv[2]
            /\ pc' = "check"
            /\ UNCHANGED <<stdout, exit_status>>
    /\ UNCHANGED <<mode, argv, watermark_text, fs, reader, writer, watermark_page,
                   idx, exc, output_file, success, before, called, inputOpens,
                   wmCalls, outOpens, gen, runs>>

\* if not os.path.exists(input_pdf): error, exit(1); else call add_watermark.
CheckInput ==
    /\ pc = "check"
    /\ IF ~exists(fs, input_pdf)
       THEN /\ Emit(Msg("notfound", input_pdf, "none"))
            /\ exit_status' = <<1>>
            /\ pc' = "done"
            /\ UNCHANGED called
       ELSE /\ called' = TRUE
            /\ pc' = "parse"
            /\ UNCHANGED <<stdout, exit_status>>
    /\ UNCHANGED <<mode, argv, input_pdf, output_pdf, watermark_text, fs, reader,
                   writer, watermark_page, idx, exc, output_file, success, before,
                   inputOpens, wmCalls, outOpens, gen, runs>>

\* -------------------------------------------------------- add_watermark
\* Variant: the output is opened for writing before the input is read.
ParseInput_output_first ==
    /\ pc = "parse"
    /\ inputOpens' = inputOpens + 1
    /\ outOpens' = outOpens + 1
    /\ fs' = [fs EXCEPT ![output_pdf] = Empty]
    /\ IF fs[input_pdf].kind # "pdf"
       THEN Raise("EPARSE") /\ UNCHANGED <<reader, writer>>
       ELSE /\ reader' = fs[input_pdf].pages
            /\ writer' = <<>>
            /\ pc' = "watermark"
            /\ UNCHANGED exc
    /\ UNCHANGED <<mode, argv, input_pdf, output_pdf, watermark_text,
                   watermark_page, idx, output_file, success, stdout, exit_status,
                   before, called, wmCalls, gen, runs>>

\* reader = PdfReader(input_pdf); writer = PdfWriter()
ParseInput ==
    /\ pc = "parse"
    /\ inputOpens' = inputOpens + 1
    /\ \E fault \in BOOLEAN :
          IF ~exists(fs, input_pdf)
          THEN Raise("ENOENT") /\ UNCHANGED <<reader, writer>>
          ELSE IF fault
          THEN Raise("EIO") /\ UNCHANGED <<reader, writer>>
          ELSE IF fs[input_pdf].kind # "pdf"
          THEN Raise("EPARSE") /\ UNCHANGED <<reader, writer>>
          ELSE /\ reader' = fs[input_pdf].pages
               /\ writer' = <<>>
               /\ pc' = "watermark"
               /\ UNCHANGED exc
    /\ UNCHANGED <<mode, argv, input_pdf, output_pdf, watermark_text, fs,
                   watermark_page, idx, output_file, success, stdout, exit_status,
                   before, called, wmCalls, outOpens, gen, runs>>

\* watermark = create_watermark(watermark_text); watermark_page = watermark.pages[0]
CreateWatermark ==
    /\ pc = "watermark"
    /\ wmCalls' = wmCalls + 1
    /\ \E fault \in BOOLEAN :
          IF fault
          THEN Raise("ERENDER") /\ UNCHANGED watermark_page
          ELSE /\ watermark_page' = create_watermark(watermark_text)[1]
               /\ pc' = "loop"
               /\ UNCHANGED exc
    /\ UNCHANGED <<mode, argv, input_pdf, output_pdf, watermark_text, fs, reader,
                   writer, idx, output_file, success, stdout, exit_status, before,
                   called, inputOpens, outOpens, gen, runs>>

\* for page in reader.pages:
LoopHead ==
    /\ pc = "loop"
    /\ pc' = IF idx <= Len(reader) THEN "merge" ELSE "open"
    /\ UNCHANGED <<mode, argv, input_pdf, output_pdf, watermark_text, fs, reader,
                   writer, watermark_page, idx, exc, output_file, success, stdout,
                   exit_status, before, called, inputOpens, wmCalls, outOpens, gen,
                   runs>>

\* page.merge_page(watermark_page)
MergePage ==
    /\ pc = "merge"
    /\ \E fault \in BOOLEAN :
          IF fault
          THEN Raise("EMERGE") /\ UNCHANGED reader
          ELSE /\ reader' = [reader EXCEPT ![idx] = merge_page(@, watermark_page)]
               /\ pc' = "add"
               /\ UNCHANGED exc
    /\ UNCHANGED <<mode, argv, input_pdf, output_pdf, watermark_text, fs, writer,
                   watermark_page, idx, output_file, success, stdout, exit_status,
                   before, called, inputOpens, wmCalls, outOpens, gen, runs>>

\* writer.add_page(page)
AddPage ==
    /\ pc = "add"
    /\ \E fault \in BOOLEAN :
          IF fault
          THEN Raise("EAPPEND") /\ UNCHANGED <<writer, idx>>
          ELSE /\ writer' = add_page(writer, reader[idx])
               /\ idx' = idx + 1
               /\ pc' = "loop"
               /\ UNCHANGED exc
    /\ UNCHANGED <<mode, argv, input_pdf, output_pdf, watermark_text, fs, reader,
                   watermark_page, output_file, success, stdout, exit_status,
                   before, called, inputOpens, wmCalls, outOpens, gen, runs>>

\* with open(output_pdf, 'wb') as output_file:   (creates or truncates)
OpenOutput ==
    /\ pc = "open"
    /\ outOpens' = outOpens + 1
    /\ \E fault \in BOOLEAN :
          IF fault
          THEN Raise("EOPEN") /\ UNCHANGED <<fs, output_file>>
          ELSE /\ fs' = [fs EXCEPT ![output_pdf] = Empty]
               /\ output_file' = "open"
               /\ pc' = "write"
               /\ UNCHANGED exc
    /\ UNCHANGED <<mode, argv, input_pdf, output_pdf, watermark_text, reader,
                   writer, watermark_page, idx, success, stdout, exit_status,
                   before, called, inputOpens, wmCalls, gen, runs>>

\* writer.write(output_file); an exception leaves the with block through __exit__.
WriteOutput ==
    /\ pc = "write"
    /\ pc' = "close"
    /\ \E fault \in BOOLEAN :
          IF fault
          THEN /\ \E f \in {Empty, Partial} : fs' = [fs EXCEPT ![output_pdf] = f]
               /\ exc' = <<"EWRITE">>
               /\ UNCHANGED gen
          ELSE /\ fs' = [fs EXCEPT ![output_pdf] = PdfFile(writer)]
               /\ gen' = [gen EXCEPT ![output_pdf] = gen[input_pdf] + 1]
               /\ UNCHANGED exc
    /\ UNCHANGED <<mode, argv, input_pdf, output_pdf, watermark_text, reader,
                   writer, watermark_page, idx, output_file, success, stdout,
                   exit_status, before, called, inputOpens, wmCalls, outOpens, runs>>

\* Variant: the handle is closed only when the body did not raise.
CloseOutput_leak ==
    /\ pc = "close"
    /\ IF exc # <<>>
       THEN /\ pc' = "except"
            /\ UNCHANGED <<fs, exc, output_file>>
       ELSE /\ output_file' = "closed"
            /\ pc' = "success"
            /\ UNCHANGED <<fs, exc>>
    /\ UNCHANGED <<mode, argv, input_pdf, output_pdf, watermark_text, reader,
                   writer, watermark_page, idx, success, stdout, exit_status,
                   before, called, inputOpens, wmCalls, outOpens, gen, runs>>

\* The with statement's exit: the handle is closed whether or not the body
\* raised; closing flushes, which can itself fail.
CloseOutput ==
    /\ pc = "close"
    /\ output_file' = "closed"
    /\ IF exc # <<>>
       THEN /\ pc' = "except"
            /\ UNCHANGED <<fs, exc>>
       ELSE \E fault \in BOOLEAN :
               IF fault
               THEN /\ \E f \in {Partial, fs[output_pdf]} :
                          fs' = [fs EXCEPT ![output_pdf] = f]
                    /\ Raise("ECLOSE")
               ELSE /\ pc' = "success"
                    /\ UNCHANGED <<fs, exc>>
    /\ UNCHANGED <<mode, argv, input_pdf, output_pdf, watermark_text, reader,
                   writer, watermark_page, idx, success, stdout, exit_status,
                   before, called, inputOpens, wmCalls, outOpens, gen, runs>>

\* print("Successfully added watermark to {output_pdf}"); return True
ReturnTrue ==
    /\ pc = "success"
    /\ Emit(Msg("success", output_pdf, "none"))
    /\ success' = <<TRUE>>
    /\ pc' = "ret"
    /\ UNCHANGED <<mode, argv, input_pdf, output_pdf, watermark_text, fs, reader,
                   writer, watermark_page, idx, exc, output_file, exit_status,
                   before, called, inputOpens, wmCalls, outOpens, gen, runs>>

\* Variant: the handler reports a missing input as its own condition.
ExceptHandler_distinct ==
    /\ pc = "except"
    /\ IF exc[1] = "ENOENT"
       THEN Emit(Msg("notfound", input_pdf, "none"))
       ELSE Emit(Msg("error", input_pdf, exc[1]))
    /\ success' = <<FALSE>>
    /\ pc' = "ret"
    /\ UNCHANGED <<mode, argv, input_pdf, output_pdf, watermark_text, fs, reader,
                   writer, watermark_page, idx, exc, output_file, exit_status,
                   before, called, inputOpens, wmCalls, outOpens, gen, runs>>

\* except Exception as e: print("Error processing {input_pdf}: {e}"); return False
ExceptHandler ==
    /\ pc = "except"
    /\ Emit(Msg("error", input_pdf, exc[1]))
    /\ success' = <<FALSE>>
    /\ pc' = "ret"
    /\ UNCHANGED <<mode, argv, input_pdf, output_pdf, watermark_text, fs, reader,
                   writer, watermark_page, idx, exc, output_file, exit_status,
                   before, called, inputOpens, wmCalls, outOpens, gen, runs>>

\* success = add_watermark(...); sys.exit(0 if success else 1)
Exit ==
    /\ pc = "ret"
    /\ mode = "cli"
    /\ exit_status' = <<exit_code(success[1])>>
    /\ pc' = "done"
    /\ UNCHANGED <<mode, argv, input_pdf, output_pdf, watermark_text, fs, reader,
                   writer, watermark_page, idx, exc, output_file, success, stdout,
                   before, called, inputOpens, wmCalls, outOpens, gen, runs>>

\* The value goes back to the importing caller.
ReturnToCaller ==
    /\ pc = "ret"
    /\ mode = "call"
    /\ pc' = "returned"
    /\ UNCHANGED <<mode, argv, input_pdf, output_pdf, watermark_text, fs, reader,
                   writer, watermark_page, idx, exc, output_file, success, stdout,
                   exit_status, before, called, inputOpens, wmCalls, outOpens, gen,
                   runs>>

Next ==
    \/ RunScript
    \/ CallAddWatermark
    \/ MainArgs
    \/ CheckInput
    \/ ParseInput
    \/ CreateWatermark
    \/ LoopHead
    \/ MergePage
    \/ AddPage
    \/ OpenOutput
    \/ WriteOutput
    \/ CloseOutput
    \/ ReturnTrue
    \/ ExceptHandler
    \/ Exit
    \/ ReturnToCaller

Spec == Init /\ [][Next]_vars

\* ================================================================ claims
Printed(kind) == \E k \in DOMAIN stdout : stdout[k].kind = kind
Missing(files, path) == files[path].kind = "absent"
Returned == pc \in {"ret", "done", "returned"}
InputPages == before[input_pdf].pages
BeforeOutput == {"ENOENT", "EIO", "EPARSE", "ERENDER", "EMERGE", "EAPPEND"}

\* C1: when add_watermark succeeds, the document at the output path has as
\* many pages as the input had, and output page k is input page k (its
\* content kept, in the same position) for every k.
C1_PagesPreserved ==
    success = <<TRUE>> =>
        /\ fs[output_pdf].kind = "pdf"
        /\ Len(fs[output_pdf].pages) = Len(InputPages)
        /\ \A k \in 1..Len(InputPages) :
              LET out == fs[output_pdf].pages[k]
              IN  /\ Len(out) > Len(InputPages[k])
                  /\ SubSeq(out, 1, Len(InputPages[k])) = InputPages[k]

C1_Witness ==
    /\ pc = "done"
    /\ success = <<TRUE>>
    /\ Len(InputPages) = 2
    /\ InputPages[1] # InputPages[2]

\* C2: in a successfully written document every page is the input page with
\* exactly one more layer, drawn last, and that layer is the one watermark
\* page this run generated (create_watermark ran once).
C2_WatermarkOnTopOnce ==
    success = <<TRUE>> =>
        /\ wmCalls = 1
        /\ watermark_page = <<watermark_text>>
        /\ \A k \in 1..Len(fs[output_pdf].pages) :
              fs[output_pdf].pages[k] = InputPages[k] \o watermark_page

C2_Witness ==
    /\ pc = "returned"
    /\ success = <<TRUE>>
    /\ watermark_text = "DRAFT"
    /\ Len(fs[output_pdf].pages) = 2
    /\ gen[input_pdf] >= 1

\* C3: a script run that reaches add_watermark prints the confirmation and
\* exits 0 exactly when parse, watermark generation, every merge and the
\* write all completed, and then the output holds every page watermarked;
\* otherwise add_watermark returns False after printing one error naming the
\* input path and the error text, and the script exits 1.
AllStepsCompleted ==
    /\ inputOpens = 1
    /\ wmCalls = 1
    /\ Len(writer) = Len(InputPages)
    /\ outOpens = 1
    /\ output_file = "closed"
    /\ exc = <<>>

C3_SuccessIffCompleted ==
    (called /\ mode = "cli" /\ Returned) =>
        /\ success # <<>>
        /\ (pc = "done" =>
               ((Printed("success") /\ exit_status = <<0>>) <=> AllStepsCompleted))
        /\ (AllStepsCompleted =>
               /\ success = <<TRUE>>
               /\ stdout = <<Msg("success", output_pdf, "none")>>
               /\ fs[output_pdf].kind = "pdf"
               /\ Len(fs[output_pdf].pages) = Len(InputPages)
               /\ \A k \in 1..Len(fs[output_pdf].pages) :
                     LET page == fs[output_pdf].pages[k]
                     IN  page[Len(page)] = watermark_text)
        /\ (~AllStepsCompleted =>
               /\ exc # <<>>
               /\ success = <<FALSE>>
               /\ stdout = <<Msg("error", input_pdf, exc[1])>>
               /\ (pc = "done" => exit_status = <<1>>))

C3_Witness ==
    /\ pc = "done"
    /\ called
    /\ exc = <<"EWRITE">>
    /\ exit_status = <<1>>
    /\ Len(reader) = 2

\* C4: a script run with zero or one argument prints the usage message and
\* exits 1, and opens no input, generates no watermark and writes no file.
C4_UsageNoSideEffects ==
    (runs > 0 /\ mode = "cli" /\ Len(argv) < 2 /\ pc # "main") =>
        /\ pc = "done"
        /\ stdout = <<Msg("usage", NoPath, "none")>>
        /\ exit_status = <<1>>
        /\ ~called
        /\ inputOpens = 0
        /\ wmCalls = 0
        /\ outOpens = 0
        /\ fs = before

C4_Witness ==
    /\ pc = "done"
    /\ mode = "cli"
    /\ Len(argv) = 1
    /\ ~Missing(fs, argv[1])
    /\ exit_status = <<1>>

\* C5: an invocation whose number of arguments is not two, three or more
\* included, is a usage error that processes nothing and writes nothing.
C5_ExactlyTwoArgs ==
    (runs > 0 /\ mode = "cli" /\ Len(argv) # 2) =>
        /\ ~called
        /\ outOpens = 0
        /\ fs = before
        /\ (pc = "done" =>
               /\ stdout = <<Msg("usage", NoPath, "none")>>
               /\ exit_status = <<1>>)

\* C6: a script run with two (or more) arguments whose input path does not
\* exist prints the error naming that path and exits 1: add_watermark is not
\* entered, the input is never opened, no watermark is generated and the
\* output path is not opened or changed.
C6_MissingInputFirst ==
    (mode = "cli" /\ Len(argv) >= 2 /\ pc \notin {"main", "check"}
        /\ Missing(before, argv[1])) =>
        /\ pc = "done"
        /\ stdout = <<Msg("notfound", argv[1], "none")>>
        /\ exit_status = <<1>>
        /\ ~called
        /\ inputOpens = 0
        /\ wmCalls = 0
        /\ outOpens = 0
        /\ fs = before

C6_Witness ==
    /\ pc = "done"
    /\ mode = "cli"
    /\ Len(argv) = 2
    /\ Missing(fs, input_pdf)
    /\ Missing(fs, output_pdf)
    /\ Printed("notfound")

\* C7 as stated: add_watermark itself reports a missing input as its own
\* condition, before it opens anything.
C7_MergerSignalsMissing ==
    (called /\ Returned /\ Missing(before, input_pdf)) =>
        /\ Printed("notfound")
        /\ ~Printed("error")
        /\ inputOpens = 0

\* C7 as amended: the missing-input condition is printed only by the entry
\* point, before add_watermark is entered; add_watermark makes no existence
\* check, and every exception in it, a missing input included, is caught
\* and reported through the one generic error message with a False result.
C7_EntryPointSignalsMissing ==
    /\ (Printed("notfound") =>
           /\ mode = "cli"
           /\ ~called
           /\ inputOpens = 0)
    /\ ((called /\ Returned /\ Missing(before, input_pdf)) =>
           /\ inputOpens = 1
           /\ stdout = <<Msg("error", input_pdf, "ENOENT")>>
           /\ success = <<FALSE>>)
    /\ ((called /\ Returned /\ exc # <<>>) =>
           /\ stdout = <<Msg("error", input_pdf, exc[1])>>
           /\ success = <<FALSE>>)

C7_Witness ==
    /\ pc = "returned"
    /\ Missing(before, input_pdf)
    /\ Printed("error")

\* C8: the output path is opened only after the input was parsed, the
\* watermark generated and every input page merged and added to the writer;
\* the file system changes nowhere but at the output path, and a failure in
\* parse, generation or merge leaves the output path as it was.
C8_OutputOpenedLast ==
    called =>
        /\ (outOpens > 0 =>
               /\ inputOpens = 1
               /\ wmCalls = 1
               /\ watermark_page # <<>>
               /\ idx = Len(reader) + 1
               /\ Len(writer) = Len(InputPages))
        /\ (fs # before => outOpens = 1)
        /\ \A p \in Paths : p # output_pdf => fs[p] = before[p]
        /\ ((exc # <<>> /\ exc[1] \in BeforeOutput) =>
               /\ outOpens = 0
               /\ output_file = "none"
               /\ fs = before)

C8_Witness ==
    /\ pc = "done"
    /\ exc = <<"EMERGE">>
    /\ idx = 2
    /\ before[output_pdf].kind = "pdf"
    /\ fs[output_pdf] = before[output_pdf]

\* C9: a file produced by k successful runs in a row holds, on every page,
\* the original content under exactly k watermark layers: a run adds one
\* layer whatever the page already carries.
C9_KRunsKLayers ==
    \A p \in Paths :
        fs[p].kind = "pdf" =>
            \A k \in 1..Len(fs[p].pages) :
                LET page == fs[p].pages[k]
                IN  /\ Len(page) = 1 + gen[p]
                    /\ page[1] \in PageContents
                    /\ \A j \in 2..Len(page) : page[j] \in Texts

C9_Witness ==
    /\ pc = "done"
    /\ success = <<TRUE>>
    /\ gen[output_pdf] = 2
    /\ fs[output_pdf].pages = << <<"a", DefaultText, DefaultText>> >>

\* C10: the output handle is open only while the with block runs; once
\* add_watermark is past it, on the normal and on the exceptional path, the
\* handle is closed, so no run ends holding it.
C10_HandleClosed ==
    /\ (output_file = "open" => pc \in {"write", "close"})
    /\ ((Returned /\ outOpens > 0 /\ (exc = <<>> \/ exc[1] # "EOPEN")) =>
           output_file = "closed")

C10_Witness ==
    /\ pc = "done"
    /\ exc = <<"EWRITE">>
    /\ output_file = "closed"
    /\ fs[output_pdf] = Partial
====
